---- MODULE Spec2Model ----
(***************************************************************************)
(* The no-fly-zone violator registry of src/scraping.py, driven by the     *)
(* Flask route of src/keep_alive.py.                                       *)
(*                                                                         *)
(* One poll cycle is update_web_page(): get_drone_data,                    *)
(* check_forbidden_coords, get_pilot_data (pilot lookups, load of          *)
(* pilot_information.json, merge, expiry, rewrite of the file) and         *)
(* convert_info_into_html.  Every page request runs one cycle in the       *)
(* thread that serves the request.  A cycle is modelled as a sequence of   *)
(* steps, one per loop iteration or file operation, so that clock reads    *)
(* and file accesses of different requests can interleave as they do in    *)
(* the program.  An uncaught exception ends the cycle where it is raised.  *)
(*                                                                         *)
(* Time is counted in ticks, SubPerSec ticks to the second (the program    *)
(* has 1000000 microseconds to the second).  Coordinates are multiples of  *)
(* Unit, and the positions used have integral distances to the nest, so    *)
(* that Sqrt is exact on them.                                             *)
(***************************************************************************)
EXTENDS Integers, Sequences, FiniteSets, TLC

VARIABLES
    now,              \* the wall clock, in ticks (datetime.datetime.now())
    clock_steps,      \* how often the clock has advanced (bounded)
    cycles,           \* how many cycles have been triggered (bounded)
    file,             \* pilot_information.json: [kind, reg]
    html,             \* templates/information.html: the registry it shows
    pc,               \* per request thread: position in update_web_page
    drone_data,       \* per thread: the snapshot returned by get_drone_data
    idx,              \* per thread: index of the running for loop
    drones_in_nfz,    \* per thread: illegal_drone_ids, in insertion order
    pilot_data,       \* per thread: pilot_data of get_pilot_data
    batch,            \* per thread: the (event, pilot) pairs resolved so far
    loaded,           \* per thread: what json.load returned in get_pilot_data
    saved_pilot_info, \* per thread: saved_pilot_info of get_pilot_data
    to_be_deleted,    \* per thread: the records expiry deleted
    time_now,         \* per thread: time_now of the expiry loop
    outcome,          \* per thread: how the thread's last cycle went
    wrote,            \* per thread: the cycle opened the store for writing
    read_kind         \* per thread: kind of store content the last read saw

vars == <<now, clock_steps, cycles, file, html, pc, drone_data, idx,
          drones_in_nfz, pilot_data, batch, loaded, saved_pilot_info,
          to_be_deleted, time_now, outcome, wrote, read_kind>>

locals == <<drone_data, idx, drones_in_nfz, pilot_data, batch, loaded,
            saved_pilot_info, to_be_deleted, time_now>>

----------------------------------------------------------------------------
(* Bounds of the model: the cycles triggered, the advances of the clock,  *)
(* and the ticks to the second                                            *)

MaxCycles == 2
MaxClockSteps == 2
SubPerSec == 2

(* Program constants *)

NestX == 250000
NestY == 250000
Radius == 100000
XLow == 150000
XHigh == 350000
TTL == 600

(* timedelta keeps a difference as days, seconds below a day, microseconds *)
SecondsPerDay == 86400

(* The coordinates of the model are multiples of Unit, which keeps the     *)
(* squares below 2^31                                                      *)
Unit == 10

Threads == {"t1", "t2"}
Serials == {"S1", "S2"}
Pilots == {"P1", "P2"}
Emails == {"e1", "e2"}

----------------------------------------------------------------------------
(* Geometry: check_forbidden_coords *)

RECURSIVE SqrtSearch(_, _, _)
SqrtSearch(n, lo, hi) ==
    IF lo >= hi THEN lo
    ELSE LET mid == (lo + hi + 1) \div 2
         IN  IF mid * mid <= n THEN SqrtSearch(n, mid, hi)
             ELSE SqrtSearch(n, lo, mid - 1)

Sqrt(n) == SqrtSearch(n, 0, 40000)

Distance(x, y) ==
    LET dx == (NestX - x) \div Unit
        dy == (NestY - y) \div Unit
    IN  Sqrt(dx * dx + dy * dy) * Unit

InNfz(x, y) == XLow < x /\ x < XHigh /\ Distance(x, y) <= Radius

----------------------------------------------------------------------------
(* Timestamps: str(datetime) and datetime.strptime(..., '%Y-%m-%d %H:%M:%S.%f'). *)
(* The string of an instant is <<seconds, fraction>>, and <<seconds>> alone *)
(* when the fraction is zero: str() prints no fraction then, and strptime   *)
(* with %f does not accept such a string.                                   *)

StrOfTime(t) ==
    IF t % SubPerSec = 0 THEN <<t \div SubPerSec>>
    ELSE <<t \div SubPerSec, t % SubPerSec>>

StrptimeOk(s) == Len(s) = 2

Strptime(s) == s[1] * SubPerSec + s[2]

(* timedelta.seconds: the seconds field of the normalised difference,      *)
(* without its days and without its microseconds                           *)
DeltaSeconds(diff) == (diff % (SecondsPerDay * SubPerSec)) \div SubPerSec

IsExpired(rec, tnow) == DeltaSeconds(tnow - Strptime(rec.timeOfViolation)) > TTL

----------------------------------------------------------------------------
(* The registry: a function from pilot ids to records *)

EmptyReg == [p \in {} |-> p]

Restrict(reg, S) == [p \in S |-> reg[p]]

Put(reg, p, rec) == [q \in DOMAIN reg \cup {p} |-> IF q = p THEN rec ELSE reg[q]]

(* An update that keeps the larger distance *)
MergeRecordFar(old, new) ==
    [old EXCEPT !.timeOfViolation = new.timeOfViolation,
                !.closestDistance =
                    IF old.closestDistance < new.closestDistance
                    THEN new.closestDistance ELSE old.closestDistance]

(* An update that stores the looked-up record in place of the old one *)
MergeRecordWhole(old, new) ==
    [new EXCEPT !.closestDistance =
                    IF old.closestDistance > new.closestDistance
                    THEN new.closestDistance ELSE old.closestDistance]

(* get_pilot_data, merge loop, the pilot is already in saved_pilot_info *)
MergeRecord(old, new) ==
    [old EXCEPT !.timeOfViolation = new.timeOfViolation,
                !.closestDistance =
                    IF old.closestDistance > new.closestDistance
                    THEN new.closestDistance ELSE old.closestDistance]

Merge(reg, pd) ==
    [p \in DOMAIN reg \cup DOMAIN pd |->
        IF p \in DOMAIN pd
        THEN IF p \in DOMAIN reg THEN MergeRecord(reg[p], pd[p]) ELSE pd[p]
        ELSE reg[p]]

(* json.dump writes the dictionary as text: one member per pilot id, each   *)
(* an object of four name/value pairs. json.load reads the text back: the  *)
(* keys of the members, each with the object of its last member.           *)
ObjectText(rec) ==
    << <<"pilotId", rec.pilotId>>, <<"email", rec.email>>,
       <<"timeOfViolation", rec.timeOfViolation>>,
       <<"closestDistance", rec.closestDistance>> >>

RECURSIVE MembersText(_, _)
MembersText(reg, S) ==
    IF S = {} THEN <<>>
    ELSE LET p == CHOOSE q \in S : TRUE
         IN  << <<p, ObjectText(reg[p])>> >> \o MembersText(reg, S \ {p})

(* A dump that writes the distance in whole kilometres *)
JsonDumpKm(reg) ==
    MembersText([p \in DOMAIN reg |->
                    [reg[p] EXCEPT !.closestDistance = @ \div 1000]],
                DOMAIN reg)

JsonDump(reg) == MembersText(reg, DOMAIN reg)

FieldOf(obj, name) == obj[CHOOSE i \in DOMAIN obj : obj[i][1] = name][2]

LoadObject(obj) ==
    [pilotId |-> FieldOf(obj, "pilotId"), email |-> FieldOf(obj, "email"),
     timeOfViolation |-> FieldOf(obj, "timeOfViolation"),
     closestDistance |-> FieldOf(obj, "closestDistance")]

JsonLoad(text) ==
    [p \in { text[i][1] : i \in DOMAIN text } |->
        LET last == CHOOSE i \in DOMAIN text :
                        /\ text[i][1] = p
                        /\ \A k \in DOMAIN text : text[k][1] = p => k <= i
        IN  LoadObject(text[last][2])]

Missing == [kind |-> "missing", text |-> <<>>]
Corrupt == [kind |-> "corrupt", text |-> <<>>]
Truncated == [kind |-> "truncated", text |-> <<>>]
Garbled == [kind |-> "garbled", text |-> <<>>]
Json(reg) == [kind |-> "json", text |-> JsonDump(reg)]


----------------------------------------------------------------------------
(* Inputs: what the drone endpoint and the pilot endpoint may answer *)

Positions ==
    { <<250000, 250000>>,      \* the nest itself, distance 0
      <<255000, 250000>>,      \* distance 5000
      <<250000, 258000>>,      \* distance 8000
      <<150000, 250000>>,      \* distance 100000, x on the edge of the band
      <<250000, 150000>>,      \* distance 100000, x inside the band
      <<250000, 350010>> }     \* distance 100010

FewPositions == { <<255000, 250000>>, <<250000, 258000>>, <<250000, 350010>> }

OnePosition == { <<255000, 250000>> }

Drone(s, pos) == [serialNumber |-> s, positionX |-> pos[1], positionY |-> pos[2]]

(* Serial numbers are unique within a snapshot; which drone carries which  *)
(* serial number has no effect, so the i-th drone carries the i-th one.    *)
SerialOf(i) == <<"S1", "S2">>[i]

SnapshotsOver(P) ==
    { [i \in DOMAIN ps |-> Drone(SerialOf(i), ps[i])] :
        ps \in UNION { [1..n -> P] : n \in 0..Cardinality(Serials) } }

(* Between two requests: a second, ten minutes, ten minutes and a second,  *)
(* a day                                                                   *)
Deltas == {SubPerSec, TTL * SubPerSec, (TTL + 1) * SubPerSec, SecondsPerDay * SubPerSec}

----------------------------------------------------------------------------
(* Initial state: the server has just started; the store is whatever the   *)
(* deployment left: absent, empty or unparsable, or an empty registry.     *)

Init ==
    /\ now = 1
    /\ clock_steps = 0
    /\ cycles = 0
    /\ file \in {Missing, Corrupt, Json(EmptyReg)}
    /\ html = EmptyReg
    /\ pc = [t \in Threads |-> "idle"]
    /\ drone_data = [t \in Threads |-> <<>>]
    /\ idx = [t \in Threads |-> 1]
    /\ drones_in_nfz = [t \in Threads |-> <<>>]
    /\ pilot_data = [t \in Threads |-> EmptyReg]
    /\ batch = [t \in Threads |-> <<>>]
    /\ loaded = [t \in Threads |-> EmptyReg]
    /\ saved_pilot_info = [t \in Threads |-> EmptyReg]
    /\ to_be_deleted = [t \in Threads |-> EmptyReg]
    /\ time_now = [t \in Threads |-> 0]
    /\ outcome = [t \in Threads |-> "none"]
    /\ wrote = [t \in Threads |-> FALSE]
    /\ read_kind = [t \in Threads |-> "none"]

(* The locals of a call are gone when the call returns or raises. *)
DropCallLocals(t) ==
    /\ drone_data' = [drone_data EXCEPT ![t] = <<>>]
    /\ idx' = [idx EXCEPT ![t] = 1]
    /\ drones_in_nfz' = [drones_in_nfz EXCEPT ![t] = <<>>]
    /\ pilot_data' = [pilot_data EXCEPT ![t] = EmptyReg]
    /\ batch' = [batch EXCEPT ![t] = <<>>]
    /\ loaded' = [loaded EXCEPT ![t] = EmptyReg]
    /\ to_be_deleted' = [to_be_deleted EXCEPT ![t] = EmptyReg]
    /\ time_now' = [time_now EXCEPT ![t] = 0]

DropLocals(t) ==
    /\ DropCallLocals(t)
    /\ saved_pilot_info' = [saved_pilot_info EXCEPT ![t] = EmptyReg]

(* An uncaught exception: update_web_page ends, Flask answers 500. *)
Raise(t, why) ==
    /\ pc' = [pc EXCEPT ![t] = "idle"]
    /\ outcome' = [outcome EXCEPT ![t] = why]
    /\ DropLocals(t)

----------------------------------------------------------------------------
(* The clock *)

ReadsClock(t) ==
    \/ pc[t] = "detect" /\ idx[t] <= Len(drone_data[t])
    \/ pc[t] = "expire"

(* An instant passes while a request is being served.  Only DetectStep and *)
(* Expire read the clock: time that passes anywhere else in a cycle is     *)
(* time that has passed when the next of them reads it.                    *)
Tick ==
    /\ clock_steps < MaxClockSteps
    /\ \E t \in Threads : ReadsClock(t)
    /\ now' = now + 1
    /\ clock_steps' = clock_steps + 1
    /\ UNCHANGED <<cycles, file, html, pc, locals, outcome, wrote, read_kind>>

(* Time passes between two requests *)
Wait(d) ==
    /\ clock_steps < MaxClockSteps
    /\ \A t \in Threads : pc[t] = "idle"
    /\ now' = now + d
    /\ clock_steps' = clock_steps + 1
    /\ UNCHANGED <<cycles, file, html, pc, locals, outcome, wrote, read_kind>>

-----
(* keep_alive.home: a page request starts update_web_page in its thread *)

Trigger(t) ==
    /\ pc[t] = "idle"
    /\ cycles < MaxCycles
    /\ cycles' = cycles + 1
    /\ pc' = [pc EXCEPT ![t] = "fetch"]
    /\ outcome' = [outcome EXCEPT ![t] = "running"]
    /\ wrote' = [wrote EXCEPT ![t] = FALSE]
    /\ read_kind' = [read_kind EXCEPT ![t] = "none"]
    /\ batch' = [batch EXCEPT ![t] = <<>>]
    /\ saved_pilot_info' = [saved_pilot_info EXCEPT ![t] = EmptyReg]
    /\ UNCHANGED <<now, clock_steps, file, html, drone_data, idx,
                   drones_in_nfz, pilot_data, loaded, to_be_deleted, time_now>>

(* get_drone_data: requests.get answers with a snapshot *)
FetchOk(t, snap) ==
    /\ pc[t] = "fetch"
    /\ drone_data' = [drone_data EXCEPT ![t] = snap]
    /\ idx' = [idx EXCEPT ![t] = 1]
    /\ pc' = [pc EXCEPT ![t] = "detect"]
    /\ UNCHANGED <<now, clock_steps, cycles, file, html, drones_in_nfz,
                   pilot_data, batch, loaded, saved_pilot_info, to_be_deleted,
                   time_now, outcome, wrote, read_kind>>

(* A fetch failure taken for an empty snapshot *)
FetchFailContinues(t) ==
    /\ pc[t] = "fetch"
    /\ pc' = [pc EXCEPT ![t] = "detect"]
    /\ outcome' = [outcome EXCEPT ![t] = "fetch_failed"]
    /\ UNCHANGED <<now, clock_steps, cycles, file, html, locals, wrote, read_kind>>

(* get_drone_data: requests.get raises; nothing catches it *)
FetchFail(t) ==
    /\ pc[t] = "fetch"
    /\ Raise(t, "fetch_failed")
    /\ UNCHANGED <<now, clock_steps, cycles, file, html, wrote, read_kind>>

(* check_forbidden_coords: one iteration of the loop over the drones, or   *)
(* the return once the loop is over                                        *)
DetectStep(t) ==
    /\ pc[t] = "detect"
    /\ IF idx[t] > Len(drone_data[t])
       THEN \* return illegal_drone_ids; the snapshot is not used again
            /\ pc' = [pc EXCEPT ![t] = "resolve"]
            /\ idx' = [idx EXCEPT ![t] = 1]
            /\ drone_data' = [drone_data EXCEPT ![t] = <<>>]
            /\ UNCHANGED drones_in_nfz
       ELSE LET drone == drone_data[t][idx[t]]
                x == drone.positionX
                y == drone.positionY
            IN  /\ drones_in_nfz' =
                       IF InNfz(x, y)
                       THEN [drones_in_nfz EXCEPT ![t] =
                                Append(@, [serialNumber |-> drone.serialNumber,
                                           time |-> StrOfTime(now),
                                           distance |-> Distance(x, y)])]
                       ELSE drones_in_nfz
                /\ idx' = [idx EXCEPT ![t] = @ + 1]
                /\ UNCHANGED <<pc, drone_data>>
    /\ UNCHANGED <<now, clock_steps, cycles, file, html, pilot_data,
                   batch, loaded, saved_pilot_info, to_be_deleted, time_now,
                   outcome, wrote, read_kind>>

(* get_pilot_data, first loop: the pilot endpoint answers for the drone *)
ResolveOk(t, pid, email) ==
    /\ pc[t] = "resolve"
    /\ idx[t] <= Len(drones_in_nfz[t])
    /\ LET ev == drones_in_nfz[t][idx[t]]
           json_object == [pilotId |-> pid, email |-> email,
                           timeOfViolation |-> ev.time,
                           closestDistance |-> ev.distance]
       IN  /\ pilot_data' = [pilot_data EXCEPT ![t] = Put(@, pid, json_object)]
           /\ batch' = [batch EXCEPT ![t] =
                           Append(@, [pilotId |-> pid, time |-> ev.time,
                                      distance |-> ev.distance])]
    /\ idx' = [idx EXCEPT ![t] = @ + 1]
    /\ UNCHANGED <<now, clock_steps, cycles, file, html, pc, drone_data,
                   drones_in_nfz, loaded, saved_pilot_info, to_be_deleted,
                   time_now, outcome, wrote, read_kind>>

(* A lookup failure that only drops the drone's event *)
ResolveFailSkips(t) ==
    /\ pc[t] = "resolve"
    /\ idx[t] <= Len(drones_in_nfz[t])
    /\ idx' = [idx EXCEPT ![t] = @ + 1]
    /\ outcome' = [outcome EXCEPT ![t] = "resolve_failed"]
    /\ UNCHANGED <<now, clock_steps, cycles, file, html, pc, drone_data,
                   drones_in_nfz, pilot_data, batch, loaded, saved_pilot_info,
                   to_be_deleted, time_now, wrote, read_kind>>

(* get_pilot_data, first loop: the lookup raises (requests.get, json.loads *)
(* or the missing pilotId key); nothing catches it.  batch keeps what the  *)
(* cycle had resolved until the thread's next cycle starts.                *)
ResolveFail(t) ==
    /\ pc[t] = "resolve"
    /\ idx[t] <= Len(drones_in_nfz[t])
    /\ pc' = [pc EXCEPT ![t] = "idle"]
    /\ outcome' = [outcome EXCEPT ![t] = "resolve_failed"]
    /\ drone_data' = [drone_data EXCEPT ![t] = <<>>]
    /\ idx' = [idx EXCEPT ![t] = 1]
    /\ drones_in_nfz' = [drones_in_nfz EXCEPT ![t] = <<>>]
    /\ pilot_data' = [pilot_data EXCEPT ![t] = EmptyReg]
    /\ UNCHANGED <<now, clock_steps, cycles, file, html, batch, loaded,
                   saved_pilot_info, to_be_deleted, time_now, wrote, read_kind>>

(* get_pilot_data: the first loop is over; drones_in_nfz is not used again *)
ResolveDone(t) ==
    /\ pc[t] = "resolve"
    /\ idx[t] > Len(drones_in_nfz[t])
    /\ pc' = [pc EXCEPT ![t] = "load"]
    /\ idx' = [idx EXCEPT ![t] = 1]
    /\ drones_in_nfz' = [drones_in_nfz EXCEPT ![t] = <<>>]
    /\ UNCHANGED <<now, clock_steps, cycles, file, html, drone_data, pilot_data,
                   batch, loaded, saved_pilot_info, to_be_deleted, time_now,
                   outcome, wrote, read_kind>>


(* get_pilot_data: open and json.load of pilot_information.json, then the  *)
(* merge loop, which is inside the try and after json.load                 *)
LoadMerge(t) ==
    /\ pc[t] = "load"
    /\ IF file.kind = "missing"
       THEN \* open() raises FileNotFoundError, outside the try
            /\ Raise(t, "store_missing")
            /\ UNCHANGED read_kind
       ELSE /\ read_kind' = [read_kind EXCEPT ![t] = file.kind]
            /\ pc' = [pc EXCEPT ![t] = "expire"]
            /\ IF file.kind = "json"
               THEN /\ loaded' = [loaded EXCEPT ![t] = JsonLoad(file.text)]
                    /\ saved_pilot_info' =
                           [saved_pilot_info EXCEPT
                               ![t] = Merge(JsonLoad(file.text), pilot_data[t])]
               ELSE \* JSONDecodeError, caught: saved_pilot_info stays {}
                    /\ loaded' = [loaded EXCEPT ![t] = EmptyReg]
                    /\ saved_pilot_info' = [saved_pilot_info EXCEPT ![t] = EmptyReg]
            /\ UNCHANGED <<drone_data, idx, drones_in_nfz, pilot_data, batch,
                           to_be_deleted, time_now, outcome>>
    /\ UNCHANGED <<now, clock_steps, cycles, file, html, wrote>>

(* get_pilot_data: the expiry loop and the deletions.  to_be_deleted keeps  *)
(* the deleted records as they were, where the program keeps their keys.   *)
(* pilot_data and what was loaded are not used again.  batch keeps the     *)
(* events of the cycle until the cycle ends.                               *)
Expire(t) ==
    /\ pc[t] = "expire"
    /\ LET reg == saved_pilot_info[t]
       IN  IF \E p \in DOMAIN reg : ~StrptimeOk(reg[p].timeOfViolation)
           THEN \* strptime raises ValueError; nothing catches it
                Raise(t, "parse_failed")
           ELSE LET gone == { p \in DOMAIN reg : IsExpired(reg[p], now) }
                IN  /\ time_now' = [time_now EXCEPT ![t] = now]
                    /\ to_be_deleted' = [to_be_deleted EXCEPT ![t] = Restrict(reg, gone)]
                    /\ saved_pilot_info' =
                           [saved_pilot_info EXCEPT ![t] = Restrict(reg, DOMAIN reg \ gone)]
                    /\ pc' = [pc EXCEPT ![t] = "persist"]
                    /\ pilot_data' = [pilot_data EXCEPT ![t] = EmptyReg]
                    /\ loaded' = [loaded EXCEPT ![t] = EmptyReg]
                    /\ UNCHANGED <<drone_data, idx, drones_in_nfz, batch, outcome>>
    /\ UNCHANGED <<now, clock_steps, cycles, file, html, wrote, read_kind>>

(* get_pilot_data: open("pilot_information.json", "w") truncates the file; *)
(* until the close it holds a strict prefix of the dump                    *)
PersistOpen(t) ==
    /\ pc[t] = "persist"
    /\ file' = Truncated
    /\ wrote' = [wrote EXCEPT ![t] = TRUE]
    /\ pc' = [pc EXCEPT ![t] = "dump"]
    /\ to_be_deleted' = [to_be_deleted EXCEPT ![t] = EmptyReg]
    /\ UNCHANGED <<now, clock_steps, cycles, html, drone_data, idx, drones_in_nfz,
                   pilot_data, batch, loaded, saved_pilot_info, time_now,
                   outcome, read_kind>>

(* get_pilot_data: json.dump and the close of the with block.  The dump is *)
(* written from the start of the file.  When another writer has written    *)
(* since this one truncated the file, the file holds this dump alone only  *)
(* if this dump is at least as long as what is there: more members are a   *)
(* longer text, fewer a shorter one, and with as many members, or over a   *)
(* garbled file, either can be the longer.                                 *)
PersistClose(t) ==
    /\ pc[t] = "dump"
    /\ \/ file.kind \in {"truncated", "garbled"}
       \/ Len(JsonDump(saved_pilot_info[t])) >= Len(file.text)
    /\ file' = Json(saved_pilot_info[t])
    /\ pc' = [pc EXCEPT ![t] = "render"]
    /\ UNCHANGED <<now, clock_steps, cycles, html, locals, outcome, wrote, read_kind>>

(* The same, when the dump of another writer is there and is the longer    *)
(* one: this dump overwrites the head of the other and the other's tail    *)
(* stays                                                                   *)
PersistCloseOver(t) ==
    /\ pc[t] = "dump"
    /\ \/ file.kind = "garbled"
       \/ /\ file.kind = "json"
          /\ Len(JsonDump(saved_pilot_info[t])) <= Len(file.text)
    /\ file # Json(saved_pilot_info[t])
    /\ file' = Garbled
    /\ pc' = [pc EXCEPT ![t] = "render"]
    /\ UNCHANGED <<now, clock_steps, cycles, html, locals, outcome, wrote, read_kind>>

(* The page shows the pilots of the registry with their closest distance *)
HtmlOf(reg) == [p \in DOMAIN reg |-> reg[p].closestDistance]

(* convert_info_into_html: json.load of the file, outside any try.         *)
(* saved_pilot_info keeps what the finished cycle persisted until the      *)
(* thread's next request.                                                  *)
Render(t) ==
    /\ pc[t] = "render"
    /\ read_kind' = [read_kind EXCEPT ![t] = file.kind]
    /\ IF file.kind = "json"
       THEN /\ html' = HtmlOf(JsonLoad(file.text))
            /\ pc' = [pc EXCEPT ![t] = "idle"]
            /\ outcome' = [outcome EXCEPT ![t] = "completed"]
            /\ DropCallLocals(t)
            /\ UNCHANGED saved_pilot_info
       ELSE \* JSONDecodeError; nothing catches it
            /\ Raise(t, "render_failed")
            /\ UNCHANGED html
    /\ UNCHANGED <<now, clock_steps, cycles, file, wrote>>

----------------------------------------------------------------------------
(* One step of the system: the clock advances, by an instant or between    *)
(* requests by one of Ds, or one of the request threads T takes a step,    *)
(* the endpoints answering with a snapshot of Snaps and a pilot of Ps with *)
(* an e-mail address of Es.                                                *)

Step(T, Snaps, Ds, Ps, Es) ==
    \/ Tick
    \/ \E d \in Ds : Wait(d)
    \/ \E t \in T :
        \/ Trigger(t)
        \/ \E snap \in Snaps : FetchOk(t, snap)
        \/ FetchFail(t)
        \/ DetectStep(t)
        \/ \E pid \in Ps, email \in Es : ResolveOk(t, pid, email)
        \/ ResolveFail(t)
        \/ ResolveDone(t)
        \/ LoadMerge(t)
        \/ Expire(t)
        \/ PersistOpen(t)
        \/ PersistClose(t)
        \/ Render(t)

(* One request at a time *)

SeqThreads == {"t1"}

Next == Step(SeqThreads, SnapshotsOver(FewPositions), Deltas, Pilots, {"e1"})

Spec == Init /\ [][Next]_vars

(* One request at a time, over all the positions, one pilot *)

NextGeo == Step(SeqThreads, SnapshotsOver(Positions), {SubPerSec}, {"P1"}, Emails)

SpecGeo == Init /\ [][NextGeo]_vars

(* Requests served concurrently, each in its own thread (app.run) *)

NextConc ==
    \/ Step(Threads, SnapshotsOver(OnePosition), {SubPerSec}, Pilots, {"e1"})
    \/ \E t \in Threads : PersistCloseOver(t)

SpecConc == Init /\ [][NextConc]_vars

(* One request at a time, two pilots whose lookup can answer either e-mail *)
(* address, ten minutes and a second between requests                      *)

NextFrame ==
    Step(SeqThreads, SnapshotsOver(FewPositions),
         {SubPerSec, (TTL + 1) * SubPerSec}, Pilots, Emails)

SpecFrame == Init /\ [][NextFrame]_vars

----------------------------------------------------------------------------
(* Helpers of the properties *)

Range(seq) == { seq[i] : i \in DOMAIN seq }

Min2(a, b) == IF a <= b THEN a ELSE b

MinOf(S) == CHOOSE m \in S : \A n \in S : m <= n

MaxOf(S) == CHOOSE m \in S : \A n \in S : n <= m

(* The instant a timestamp string denotes, with or without a fraction *)
InstantOf(s) == IF Len(s) = 2 THEN s[1] * SubPerSec + s[2] ELSE s[1] * SubPerSec

(* The age of a record at instant tnow, in ticks *)
Age(rec, tnow) == tnow - InstantOf(rec.timeOfViolation)

TtlTicks == TTL * SubPerSec

----------------------------------------------------------------------------
(* C1: expire removes exactly the entries whose age now - time_of_violation *)
(* is strictly greater than 600 seconds, whatever the age: every entry it   *)
(* retains has age <= 600 s and every entry it removes has age > 600 s.     *)
C1_ExpireRemovesExactlyOlderThanTtl ==
    \A t \in Threads :
        pc[t] = "persist" =>
            /\ \A p \in DOMAIN saved_pilot_info[t] :
                   Age(saved_pilot_info[t][p], time_now[t]) <= TtlTicks
            /\ \A p \in DOMAIN to_be_deleted[t] :
                   Age(to_be_deleted[t][p], time_now[t]) > TtlTicks

(* C2: an event for a pilot already in the registry sets time_of_violation  *)
(* to the event's detected_at unconditionally and closest_distance to the   *)
(* minimum of the existing distance and the event's.                        *)
C2_UpdateSetsTimeAndKeepsMinimum ==
    \A t \in Threads :
        (pc[t] = "expire" /\ read_kind[t] = "json") =>
            \A p \in DOMAIN pilot_data[t] \cap DOMAIN loaded[t] :
                /\ saved_pilot_info[t][p].timeOfViolation =
                       pilot_data[t][p].timeOfViolation
                /\ saved_pilot_info[t][p].closestDistance =
                       Min2(loaded[t][p].closestDistance,
                            pilot_data[t][p].closestDistance)

(* C2, the scenario: the registry has the pilot at 5000, an event at 8000   *)
(* arrives later; the distance stays 5000 and the time has advanced.        *)
C2_Witness ==
    \E t \in Threads : \E p \in DOMAIN pilot_data[t] \cap DOMAIN loaded[t] :
        /\ pc[t] = "expire" /\ read_kind[t] = "json"
        /\ loaded[t][p].closestDistance = 5000
        /\ pilot_data[t][p].closestDistance = 8000
        /\ saved_pilot_info[t][p].closestDistance = 5000
        /\ InstantOf(saved_pilot_info[t][p].timeOfViolation) >
               InstantOf(loaded[t][p].timeOfViolation)

(* C3: a drone of the snapshot is reported iff its distance d to the nest   *)
(* satisfies d <= 100000, the points at distance exactly 100000 included.   *)
C3_ReportedIffWithinRadius ==
    \A t \in Threads :
        pc[t] = "detect" =>
            { e.serialNumber : e \in Range(drones_in_nfz[t]) } =
            { drone_data[t][i].serialNumber :
                i \in { j \in 1..(idx[t] - 1) :
                          Distance(drone_data[t][j].positionX,
                                   drone_data[t][j].positionY) <= Radius } }

(* C4: in the registry a completed cycle has persisted, no entry is older   *)
(* than 600 s at that cycle's time.                                         *)
C4_PersistedEntriesWithinTtl ==
    \A t \in Threads :
        (pc[t] = "render" /\ file.kind = "json") =>
            \A p \in DOMAIN JsonLoad(file.text) :
                Age(JsonLoad(file.text)[p], time_now[t]) <= TtlTicks

(* C5: for several events of one batch that resolve to the same pilot, the  *)
(* merged record has the minimum distance over the batch and any existing   *)
(* record, and the latest detected_at, whatever the order of the events.    *)
C5_BatchMinimumAndLatest ==
    \A t \in Threads :
        (pc[t] = "expire" /\ read_kind[t] = "json") =>
            \A p \in { e.pilotId : e \in Range(batch[t]) } :
                LET evs == { e \in Range(batch[t]) : e.pilotId = p }
                    old == IF p \in DOMAIN loaded[t]
                           THEN {loaded[t][p].closestDistance} ELSE {}
                IN  /\ saved_pilot_info[t][p].closestDistance =
                           MinOf({ e.distance : e \in evs } \cup old)
                    /\ InstantOf(saved_pilot_info[t][p].timeOfViolation) =
                           MaxOf({ InstantOf(e.time) : e \in evs })

C7_LookupFailureStillPersists ==
    \A t \in Threads : outcome[t] = "resolve_failed" => wrote[t]

(* C7 as amended: a pilot lookup that fails ends the whole cycle: nothing   *)
(* is merged, also not the events already resolved, and the store is not    *)
(* opened for writing.                                                      *)
C7_LookupFailureAbortsCycle ==
    \A t \in Threads :
        outcome[t] = "resolve_failed" => (pc[t] = "idle" /\ ~wrote[t])

(* C7: one drone's pilot was resolved, the next lookup failed, and the      *)
(* resolved pilot is not in the store                                       *)
C7_Witness ==
    \E t \in Threads :
        /\ outcome[t] = "resolve_failed"
        /\ Len(batch[t]) = 1
        /\ file.kind = "json"
        /\ batch[t][1].pilotId \notin DOMAIN JsonLoad(file.text)

(* C8: a missing, empty or corrupt store is not fatal: no cycle dies on it  *)
C8_BadStoreNotFatal ==
    \A t \in Threads : outcome[t] # "store_missing"

(* C9: at most one cycle is inside its load -> merge -> expire -> persist   *)
(* section at any time.                                                     *)
C9_OneCycleInSection ==
    Cardinality({ t \in Threads : pc[t] \in {"expire", "persist", "dump"} }) <= 1

(* C10: no reader ever observes a truncated or partially written registry   *)
C10_NoReaderSeesWriteInProgress ==
    \A t \in Threads : read_kind[t] \notin {"truncated", "garbled"}

(* C11: detect emits exactly one event per violating drone of the snapshot, *)
(* in snapshot order, each with the distance of its drone, and all events   *)
(* of the call carry the same timestamp.                                    *)
C11_OneEventPerViolatingDrone ==
    \A t \in Threads :
        pc[t] = "detect" =>
            LET seen == { j \in 1..(idx[t] - 1) :
                            Distance(drone_data[t][j].positionX,
                                     drone_data[t][j].positionY) <= Radius }
                evs == drones_in_nfz[t]
            IN  /\ Len(evs) = Cardinality(seen)
                /\ \A j \in seen :
                       \E i \in DOMAIN evs :
                           /\ evs[i].serialNumber = drone_data[t][j].serialNumber
                           /\ evs[i].distance =
                                  Distance(drone_data[t][j].positionX,
                                           drone_data[t][j].positionY)
                /\ \A i, k \in DOMAIN evs : evs[i].time = evs[k].time

(* C12: persisting a registry and reading the file back yields the same    *)
(* mapping: when a cycle has written the file, what json.load reads from   *)
(* it is the registry the cycle dumped, empty or populated.                *)
C12_PersistThenReloadIsIdentity ==
    \A t \in Threads :
        (pc[t] = "render" /\ file.kind = "json") =>
            JsonLoad(file.text) = saved_pilot_info[t]

(* A registry of two pilots with different records has been written *)
C12_Witness ==
    \E t \in Threads :
        /\ pc[t] = "render" /\ file.kind = "json"
        /\ DOMAIN saved_pilot_info[t] = Pilots
        /\ saved_pilot_info[t]["P1"].closestDistance
               # saved_pilot_info[t]["P2"].closestDistance
        /\ Len(file.text) = 2

C14_ClosestIsMinimumOverSightings ==
    \A t \in Threads :
        (pc[t] = "expire" /\ read_kind[t] = "json") =>
            \A p \in DOMAIN saved_pilot_info[t] :
                /\ \A e \in Range(batch[t]) :
                       e.pilotId = p =>
                           saved_pilot_info[t][p].closestDistance <= e.distance
                /\ p \in DOMAIN loaded[t] =>
                       saved_pilot_info[t][p].closestDistance
                           <= loaded[t][p].closestDistance

(* C15: the time of violation of an entry never moves backwards from one   *)
(* persisted registry to the next, also when requests are served           *)
(* concurrently: the registry a cycle has merged, and will persist since  *)
(* all its times parse, holds for every entry a time no earlier than the   *)
(* one in the registry the cycle read.                                     *)
C15_TimeNeverMovesBackwards ==
    \A t \in Threads :
        ( /\ pc[t] = "expire" /\ read_kind[t] = "json"
          /\ \A q \in DOMAIN saved_pilot_info[t] :
                 StrptimeOk(saved_pilot_info[t][q].timeOfViolation) ) =>
            \A p \in DOMAIN saved_pilot_info[t] \cap DOMAIN loaded[t] :
                InstantOf(saved_pilot_info[t][p].timeOfViolation)
                    >= InstantOf(loaded[t][p].timeOfViolation)

(* C16: an entry whose age exceeds 10 minutes does not survive the expiry  *)
(* of the next cycle, however long ago the entry was written: the expiry   *)
(* step of a cycle removes every entry of its registry that is older than  *)
(* 600 seconds at that instant.                                            *)
C16_ExpiryRemovesOldEntries ==
    [][ \A t \in Threads :
            (pc[t] = "expire" /\ pc'[t] = "persist") =>
                \A p \in DOMAIN saved_pilot_info[t] :
                    Age(saved_pilot_info[t][p], now) > TtlTicks =>
                        p \notin DOMAIN saved_pilot_info'[t] ]_vars

(* C17: no update is lost when requests are served concurrently: when the  *)
(* cycles of both threads have completed, every entry that either cycle    *)
(* persisted and that is not older than 600 seconds is in the registry on  *)
(* file.                                                                   *)
C17_NoLostUpdate ==
    ( /\ \A t \in Threads : pc[t] = "idle" /\ outcome[t] = "completed"
      /\ file.kind = "json" ) =>
        \A t \in Threads :
            \A p \in DOMAIN saved_pilot_info[t] :
                Age(saved_pilot_info[t][p], now) <= TtlTicks =>
                    p \in DOMAIN JsonLoad(file.text)

(* C18: the merge step leaves the record of every pilot of the registry    *)
(* read that has no event in the batch as it was, and changes nothing but  *)
(* the time and the closest distance in the record of a pilot that has     *)
(* one; the expiry step leaves every entry it retains as it was.           *)
C18_MergeAndExpireFrame ==
    [][ \A t \in Threads :
            /\ (pc[t] = "load" /\ pc'[t] = "expire" /\ file.kind = "json") =>
                   \A p \in DOMAIN JsonLoad(file.text) :
                       /\ p \in DOMAIN saved_pilot_info'[t]
                       /\ p \notin DOMAIN pilot_data[t] =>
                              saved_pilot_info'[t][p] = JsonLoad(file.text)[p]
                       /\ p \in DOMAIN pilot_data[t] =>
                              /\ saved_pilot_info'[t][p].pilotId
                                     = JsonLoad(file.text)[p].pilotId
                              /\ saved_pilot_info'[t][p].email
                                     = JsonLoad(file.text)[p].email
            /\ (pc[t] = "expire" /\ pc'[t] = "persist") =>
                   \A p \in DOMAIN saved_pilot_info'[t] :
                       /\ p \in DOMAIN saved_pilot_info[t]
                       /\ saved_pilot_info'[t][p] = saved_pilot_info[t][p] ]_vars

(* The merge has updated P1, whose lookup answered another e-mail address  *)
(* than the stored one, and has left P2, which has no event; the expiry    *)
(* that follows removes P2 and retains P1.                                 *)
C18_Witness ==
    \E t \in Threads :
        /\ pc[t] = "expire" /\ read_kind[t] = "json"
        /\ DOMAIN loaded[t] = Pilots
        /\ DOMAIN pilot_data[t] = {"P1"}
        /\ pilot_data[t]["P1"].email # loaded[t]["P1"].email
        /\ saved_pilot_info[t]["P1"].timeOfViolation
               # loaded[t]["P1"].timeOfViolation
        /\ StrptimeOk(saved_pilot_info[t]["P1"].timeOfViolation)
        /\ StrptimeOk(saved_pilot_info[t]["P2"].timeOfViolation)
        /\ IsExpired(saved_pilot_info[t]["P2"], now)
        /\ ~IsExpired(saved_pilot_info[t]["P1"], now)

====
